---- MODULE Spec2Model ----
(***************************************************************************)
(* Cabana AoSoA particle container (Cabana_AoSoA.hpp) and the Cajita grid  *)
(* particle generators (Cajita_ParticleInit.hpp).                          *)
(*                                                                         *)
(* Spec     : a host thread calling the container's public operations.    *)
(* SpecGen  : one run of a record-producing createParticles, with one     *)
(*            producer per owned cell running concurrently.                *)
(***************************************************************************)
EXTENDS Integers, Sequences, FiniteSets, Bags, TLC

(***************************************************************************)
(* Bounds of the model.                                                    *)
(***************************************************************************)
\* vector_length template argument of the AoSoA (entries per SoA block).
VectorLength == 2
\* Largest tuple count passed to the constructor, resize and reserve.
MaxN == 4
\* Magnitude of the most negative int passed to resize and reserve.
NegN == 1

\* Largest number of owned cells of the local grid (one producer each).
MaxCells == 2
\* Largest particles_per_cell (random) or particles_per_cell_dim (uniform).
MaxPer == 2
\* Largest number of candidates of one createParticles call.
MaxCand == 8
\* The creation functors accept the ids whose residue modulo some
\* m <= AcceptMod lies in a chosen set.
AcceptMod == 2

\* Largest size asked for while two handles are in use.
MaxCopyN == 3

\* Owned index spaces of the positions-only calls have 1..MaxExtent cells
\* along I and along J, and one along K.
MaxExtent == 2

\* Partition identifiers are 0..MaxBlockId.
MaxBlockId == 2

\* Caller seeds are the default seed and the MaxSeedOffset values after it.
MaxSeedOffset == 3

VARIABLES
    aosoa,      \* the container object
    heap,       \* live allocations
    threw,      \* an allocation error has propagated to the caller
    last,       \* the operation that produced this state, with its arguments
    pre,        \* the container object as it was before that operation
    hostpc,     \* position of the host thread
    cfg,        \* arguments of the createParticles call
    count,      \* the creation count view, count( 0 )
    count_host, \* host mirror of the creation count
    prod,       \* cell_id -> loop position and locals of that cell's work item
    filled,     \* pid -> particle as the functor filled it in, when created
    slot,       \* pid -> value its atomic_fetch_add returned
    wrote,      \* pid -> list index its particle was inserted at
    calls,      \* pid -> number of times the functor was called with it
    ntrue,      \* number of functor calls that returned true
    ret,        \* return value of createParticles
    other,      \* copies made of the container object: <<>> or <<copy>>
    realloc,    \* a handle has replaced its allocation since the last copy
    via,        \* the handle the last operation went through
    schema,     \* member -> sizeof its value type, for the container type
    positions,  \* destination storage of the positions-only variants
    pwrites,    \* slot -> the candidates that wrote it, in order
    args,       \* work item -> the calls it made of the creation functor
    opcall,     \* arguments of the PARTICLE_OP call, <<>> when none was made
    visited,    \* vector indices the kernel was called with, in bounds or not
    dst         \* destination container of a deep_copy, <<>> when none was made

NRange == (0 - NegN)..MaxN

\* Member values the host writes with setTuple.  The container only copies
\* and compares them, so two values per member are enough to tell records
\* apart.
Val == {0, 1}

(***************************************************************************)
(* C++ integer arithmetic: / truncates toward zero, % has the sign of the  *)
(* dividend.  The divisor is always vector_length > 0.                     *)
(***************************************************************************)
CDiv(a, b) == IF a >= 0 THEN a \div b ELSE 0 - ((0 - a) \div b)

CMod(a, b) == a - b * CDiv(a, b)

(***************************************************************************)
(* Tuples and SoA blocks.  A tuple has two members; a SoA holds            *)
(* vector_length tuples, member arrays indexed by the in-block offset.     *)
(***************************************************************************)
Tuple == [f0 : Val, f1 : Val]

ZeroTuple == [f0 |-> 0, f1 |-> 0]

ZeroSoA == [i \in 0..(VectorLength - 1) |-> ZeroTuple]

\* Impl::Index<vector_length>::s : struct index of a tuple index.
IndexS(idx) == CDiv(idx, VectorLength)

\* Impl::Index<vector_length>::i : array offset of a tuple index.
IndexI(idx) == CMod(idx, VectorLength)

(***************************************************************************)
(* Memory.  The heap maps the address of every live allocation to its      *)
(* array of SoA blocks and the number of views referring to it.  Address 0 *)
(* is the unallocated (default) view.                                      *)
(***************************************************************************)
EmptyHeap == [a \in {} |-> <<>>]

Blocks(h, a) == IF a = 0 THEN <<>> ELSE h[a].blocks

FreshAddr(h) ==
    CHOOSE a \in 1..(Cardinality(DOMAIN h) + 1) :
        /\ a \notin DOMAIN h
        /\ \A b \in 1..(a - 1) : b \in DOMAIN h

\* One view of the allocation at address a goes away; the allocation is
\* freed with its last view.
Release(h, a) ==
    IF a = 0
    THEN h
    ELSE IF h[a].refs > 1
         THEN [h EXCEPT ![a].refs = @ - 1]
         ELSE [x \in (DOMAIN h \ {a}) |-> h[x]]

\* A further view of the allocation at address a (shallow copy of a view).
Retain(h, a) == IF a = 0 THEN h ELSE [h EXCEPT ![a].refs = @ + 1]

KokkosResize_NoCopy(h, a, n) ==
    LET na == FreshAddr(h)
        nb == [blocks |-> [s \in 1..n |-> ZeroSoA], refs |-> 1]
        h1 == [x \in (DOMAIN h \cup {na}) |-> IF x = na THEN nb ELSE h[x]]
    IN  [addr |-> na, heap |-> Release(h1, a)]

\* Kokkos::resize( _data, n ): a new allocation of n value-initialised
\* blocks, the common prefix copied over, the old view released.
KokkosResize(h, a, n) ==
    LET old == Blocks(h, a)
        na == FreshAddr(h)
        nb == [blocks |-> [s \in 1..n |->
                              IF s <= Len(old) THEN old[s] ELSE ZeroSoA],
               refs |-> 1]
        h1 == [x \in (DOMAIN h \cup {na}) |-> IF x = na THEN nb ELSE h[x]]
    IN  [addr |-> na, heap |-> Release(h1, a)]

(***************************************************************************)
(* The container: _size, _capacity, _num_soa and the view _data.           *)
(* Every operation maps (container, heap) to a result record               *)
(*   [c |-> container, h |-> heap, threw |-> allocation error raised].     *)
(***************************************************************************)
\* The members of a tuple and the byte size of their value types.
Members == {"f0", "f1"}

\* double, float and a 12-byte long double; sizeof and alignment.
ElemBytes == {8, 4, 12}

ElemAlign(b) == IF b = 12 THEN 4 ELSE b

\* The container types of the model: member f0 is double.
Schemas == {[f0 |-> 8, f1 |-> b] : b \in ElemBytes}

DefaultSchema == [f0 |-> 8, f1 |-> 8]

RoundUp(x, a) == ((x + a - 1) \div a) * a

\* sizeof( soa_type ) for member sizes sch: one array of vector_length
\* values per member, each aligned for its value type, the struct padded
\* to its strictest alignment.
SizeofSoA(sch) ==
    LET off1 == RoundUp(VectorLength * sch.f0, ElemAlign(sch.f1))
        a == IF ElemAlign(sch.f0) > ElemAlign(sch.f1)
             THEN ElemAlign(sch.f0) ELSE ElemAlign(sch.f1)
    IN  RoundUp(off1 + VectorLength * sch.f1, a)

MemberBytes == schema

SoABytes == SizeofSoA(schema)

StaticAssertStride_None(sch) == TRUE

\* static_assert( 0 == sizeof(soa_type) % sizeof(member_value_type<N>) ),
\* for every member N.
StaticAssertStride(sch) ==
    \A m \in Members : SizeofSoA(sch) % sch[m] = 0

\* Content of _pointers and _strides before anything was stored in them.
IndeterminatePointer == [addr |-> 0 - 1, member |-> "indeterminate"]
IndeterminateStride == 0 - 1

\* AoSoA() : size zero, no memory allocated; _pointers and _strides are not
\* initialised.
AoSoADefault ==
    [size |-> 0, capacity |-> 0, num_soa |-> 0, data |-> 0,
     pointers |-> [m \in Members |-> IndeterminatePointer],
     strides |-> [m \in Members |-> IndeterminateStride]]

storePointersAndStrides_Stale(c) == c

\* AoSoA::storePointersAndStrides: for every member the address of its
\* array in _data( 0 ) and the stride in units of its value type.
storePointersAndStrides(c) ==
    [c EXCEPT !.pointers = [m \in Members |-> [addr |-> c.data, member |-> m]],
              !.strides = [m \in Members |-> SoABytes \div MemberBytes[m]]]

reserve_Floor(c, h, n, allocOk) ==
    IF n <= c.capacity
    THEN [c |-> c, h |-> h, threw |-> FALSE]
    ELSE LET num_soa_alloc == CDiv(n, VectorLength)
         IN  IF num_soa_alloc <= c.num_soa
             THEN [c |-> c, h |-> h, threw |-> FALSE]
             ELSE LET r == KokkosResize(h, c.data, num_soa_alloc)
                  IN  [c |-> storePointersAndStrides(
                                 [c EXCEPT !.capacity = num_soa_alloc * VectorLength,
                                           !.data = r.addr]),
                       h |-> r.heap, threw |-> FALSE]

reserve_OverAlloc(c, h, n, allocOk) ==
    IF n <= c.capacity
    THEN [c |-> c, h |-> h, threw |-> FALSE]
    ELSE LET num_soa_alloc ==
                 CDiv(n, VectorLength) +
                 (IF 0 < CMod(n, VectorLength) THEN 1 ELSE 0) + 1
             r == KokkosResize(h, c.data, num_soa_alloc)
         IN  [c |-> storePointersAndStrides(
                        [c EXCEPT !.capacity = num_soa_alloc * VectorLength,
                                  !.data = r.addr]),
              h |-> r.heap, threw |-> FALSE]

reserve_NoCapacityCheck(c, h, n, allocOk) ==
    LET num_soa_alloc ==
            CDiv(n, VectorLength) +
            (IF 0 < CMod(n, VectorLength) THEN 1 ELSE 0)
    IN  IF num_soa_alloc <= c.num_soa
        THEN [c |-> c, h |-> h, threw |-> FALSE]
        ELSE LET r == KokkosResize(h, c.data, num_soa_alloc)
             IN  [c |-> storePointersAndStrides(
                            [c EXCEPT !.capacity = num_soa_alloc * VectorLength,
                                      !.data = r.addr]),
                  h |-> r.heap, threw |-> FALSE]

reserve_SetsNumSoA(c, h, n, allocOk) ==
    IF n <= c.capacity
    THEN [c |-> c, h |-> h, threw |-> FALSE]
    ELSE LET num_soa_alloc ==
                 CDiv(n, VectorLength) +
                 (IF 0 < CMod(n, VectorLength) THEN 1 ELSE 0)
             r == KokkosResize(h, c.data, num_soa_alloc)
         IN  [c |-> storePointersAndStrides(
                        [c EXCEPT !.capacity = num_soa_alloc * VectorLength,
                                  !.num_soa = num_soa_alloc,
                                  !.data = r.addr]),
              h |-> r.heap, threw |-> FALSE]

\* AoSoA::reserve( n ).  When the allocation in Kokkos::resize fails the
\* exception leaves reserve after _capacity has been assigned.
reserve(c, h, n, allocOk) ==
    IF n <= c.capacity
    THEN [c |-> c, h |-> h, threw |-> FALSE]
    ELSE LET num_soa_alloc ==
                 CDiv(n, VectorLength) +
                 (IF 0 < CMod(n, VectorLength) THEN 1 ELSE 0)
         IN  IF num_soa_alloc <= c.num_soa
             THEN [c |-> c, h |-> h, threw |-> FALSE]
             ELSE LET c1 == [c EXCEPT !.capacity = num_soa_alloc * VectorLength]
                  IN  IF ~allocOk
                      THEN [c |-> c1, h |-> h, threw |-> TRUE]
                      ELSE LET r == KokkosResize(h, c.data, num_soa_alloc)
                           IN  [c |-> storePointersAndStrides(
                                          [c1 EXCEPT !.data = r.addr]),
                                h |-> r.heap, threw |-> FALSE]

resize_NoReserve(c, h, n, allocOk) ==
    [c |-> [c EXCEPT !.size = n,
                     !.num_soa = CDiv(n, VectorLength) +
                         (IF 0 < CMod(n, VectorLength) THEN 1 ELSE 0)],
     h |-> h, threw |-> FALSE]

resize_FloorSoA(c, h, n, allocOk) ==
    LET r == reserve(c, h, n, allocOk)
    IN  IF r.threw
        THEN r
        ELSE [c |-> [r.c EXCEPT !.size = n,
                                !.num_soa = CDiv(n, VectorLength)],
              h |-> r.h, threw |-> FALSE]

resize_ShrinksStorage(c, h, n, allocOk) ==
    LET r == reserve(c, h, n, allocOk)
        k == CDiv(n, VectorLength) +
             (IF 0 < CMod(n, VectorLength) THEN 1 ELSE 0)
    IN  IF r.threw
        THEN r
        ELSE IF k * VectorLength < r.c.capacity
             THEN LET q == KokkosResize(r.h, r.c.data, k)
                  IN  [c |-> storePointersAndStrides(
                                 [r.c EXCEPT !.size = n, !.num_soa = k,
                                             !.capacity = k * VectorLength,
                                             !.data = q.addr]),
                       h |-> q.heap, threw |-> FALSE]
             ELSE [c |-> [r.c EXCEPT !.size = n, !.num_soa = k],
                   h |-> r.h, threw |-> FALSE]

\* AoSoA::resize( n ).
resize(c, h, n, allocOk) ==
    LET r == reserve(c, h, n, allocOk)
    IN  IF r.threw
        THEN r
        ELSE [c |-> [r.c EXCEPT !.size = n,
                                !.num_soa = CDiv(n, VectorLength) +
                                    (IF 0 < CMod(n, VectorLength) THEN 1 ELSE 0)],
              h |-> r.h, threw |-> FALSE]

AoSoAWithSize_NoResize(n) ==
    [c |-> [AoSoADefault EXCEPT !.size = n], h |-> EmptyHeap, threw |-> FALSE]

\* explicit AoSoA( n ).
AoSoAWithSize(n) ==
    resize([AoSoADefault EXCEPT !.size = n], EmptyHeap, n, TRUE)

\* AoSoA::size(), capacity(), numSoA().
size(c) == c.size

capacity(c) == c.capacity

numSoA(c) == c.num_soa

\* AoSoA::arraySize( s ).
arraySize(c, s) ==
    IF s < c.num_soa - 1 THEN VectorLength ELSE CMod(c.size, VectorLength)

getTuple_Offset0(c, h, idx) == Blocks(h, c.data)[IndexS(idx) + 1][0]

\* AoSoA::getTuple( idx ).
getTuple(c, h, idx) == Blocks(h, c.data)[IndexS(idx) + 1][IndexI(idx)]

setTuple_Offset0(c, h, idx, tpl) ==
    [h EXCEPT ![c.data].blocks[IndexS(idx) + 1][0] = tpl]

setTuple_NextOffset(c, h, idx, tpl) ==
    [h EXCEPT ![c.data].blocks[IndexS(idx) + 1]
                              [(IndexI(idx) + 1) % VectorLength] = tpl]

\* AoSoA::setTuple( idx, tpl ): the heap after the write.
setTuple(c, h, idx, tpl) ==
    [h EXCEPT ![c.data].blocks[IndexS(idx) + 1][IndexI(idx)] = tpl]

slice_CapacityAsSize(c, m) ==
    [ptr |-> c.pointers[m], size |-> c.capacity, stride |-> c.strides[m],
     num_soa |-> c.num_soa]

\* AoSoA::slice( MemberTag<m> ): pointer, size, stride and number of SoAs
\* are copied into the slice.
slice(c, m) ==
    [ptr |-> c.pointers[m], size |-> c.size, stride |-> c.strides[m],
     num_soa |-> c.num_soa]

AoSoACopy_NoRetain(c, h) == [c |-> c, h |-> h]

AoSoACopy_Deep(c, h) ==
    IF c.data = 0
    THEN [c |-> c, h |-> h]
    ELSE LET a == FreshAddr(h)
             c2 == storePointersAndStrides([c EXCEPT !.data = a])
         IN  [c |-> c2,
              h |-> [x \in (DOMAIN h \cup {a}) |->
                        IF x = a THEN [blocks |-> h[c.data].blocks, refs |-> 1]
                                 ELSE h[x]]]

\* The implicit copy of an AoSoA: every member is copied, the view _data
\* as one more reference to the same allocation.
AoSoACopy(c, h) == [c |-> c, h |-> Retain(h, c.data)]

\* Number of SoA blocks the view _data holds.
Extent(c, h) == Len(Blocks(h, c.data))

(***************************************************************************)
(* Grid particle generation: createParticles( InitRandom / InitUniform,    *)
(* create_functor, particle_list, ... ).                                   *)
(***************************************************************************)
\* particles_per_cell: the argument itself (random) or its cube (uniform).
ParticlesPerCell(policy, per) ==
    IF policy = "uniform" THEN per * per * per ELSE per

LocalParticleId_NoCellOffset(policy, per, cell_id, t) ==
    IF policy = "uniform"
    THEN LET ip == t \div (per * per)
             jp == (t \div per) % per
             kp == t % per
         IN  ip + per * (jp + per * kp)
    ELSE t

\* Local particle id of iteration t of the creation loop of cell cell_id.
\* The uniform loop nest runs ip outermost and kp innermost.
LocalParticleId(policy, per, cell_id, t) ==
    IF policy = "uniform"
    THEN LET ip == t \div (per * per)
             jp == (t \div per) % per
             kp == t % per
         IN  cell_id * (per * per * per) + ip + per * (jp + per * kp)
    ELSE cell_id * per + t

\* Exact arithmetic on the coordinates and volumes the generator computes:
\* non-negative rationals as reduced fractions.
RECURSIVE GCD(_, _)
GCD(a, b) == IF b = 0 THEN a ELSE GCD(b, a % b)

Frac(n, d) == LET g == GCD(n, d) IN [num |-> n \div g, den |-> d \div g]

FInt(k) == Frac(k, 1)

FAdd(x, y) == Frac(x.num * y.den + y.num * x.den, x.den * y.den)

FSub(x, y) == Frac(x.num * y.den - y.num * x.den, x.den * y.den)

FMul(x, y) == Frac(x.num * y.num, x.den * y.den)

FDiv(x, k) == Frac(x.num, x.den * k)

\* Edge length of a cell of the uniform mesh.
CellSize == 1

\* local_mesh.coordinates( Cajita::Node(), node, x ).
Coordinates(node) == [d \in 1..3 |-> FInt(node[d] * CellSize)]

\* local_mesh.measure( Cajita::Cell(), node ).
Measure(node) == FInt(CellSize * CellSize * CellSize)

\* The owned index space of extents ext, with its minimum at the origin.
OwnedMin == <<0, 0, 0>>

OwnedCells(ext) ==
    {<<i, j, k>> : i \in 0..(ext[1] - 1), j \in 0..(ext[2] - 1),
                   k \in 0..(ext[3] - 1)}

OwnedSize(ext) == ext[1] * ext[2] * ext[3]

\* The cell that work item w of grid_parallel_for is called with.
CellOf(ext, w) ==
    <<w % ext[1], (w \div ext[1]) % ext[2], w \div (ext[1] * ext[2])>>

CellId_Flat(ext, node) == node[1] + node[2] + node[3]

\* cell_id = i_own + extent( I ) * ( j_own + k_own * extent( J ) ).
CellId(ext, node) ==
    LET i_own == node[1] - OwnedMin[1]
        j_own == node[2] - OwnedMin[2]
        k_own == node[3] - OwnedMin[3]
    IN  i_own + ext[1] * (j_own + k_own * ext[2])

\* The seed argument's default value.
DefaultSeed == 123456

\* The seeds callers pass, and the one a call without seed argument has.
Seeds == DefaultSeed..(DefaultSeed + MaxSeedOffset)

SeedsOf(policy) == IF policy = "random" THEN Seeds ELSE {DefaultSeed}

\* global_grid.blockId() of the calling rank.
BlockIds == 0..MaxBlockId

LocalSeed_Sum(seed, blockId) == blockId + seed

\* local_seed = blockId + ( seed % ( blockId + 1 ) ).
LocalSeed(seed, blockId) == blockId + (seed % (blockId + 1))

\* pool.init( local_seed, num_states ): one generator state per index, each
\* a function of the seed and its index.
PoolInit(local_seed, num_states) ==
    [x \in 0..(num_states - 1) |-> [seed |-> local_seed, idx |-> x, n |-> 0]]

GetState_Shared(pool, cell_id) == pool[0]

\* pool.get_state( cell_id ).
GetState(pool, cell_id) == pool[cell_id]

\* Kokkos::rand<..., double>::draw( rand, lo, hi ): the n-th value of the
\* generator's stream, scaled into [lo, hi), and the advanced generator.
Draw(gen, lo, hi) ==
    [value |-> [stream |-> <<gen.seed, gen.idx>>, k |-> gen.n,
                lo |-> lo, hi |-> hi],
     gen |-> [gen EXCEPT !.n = @ + 1]]

\* The random point of one candidate: one draw per dimension, d = 0, 1, 2.
RandomPosition(gen, low, high) ==
    LET d1 == Draw(gen, low[1], high[1])
        d2 == Draw(d1.gen, low[2], high[2])
        d3 == Draw(d2.gen, low[3], high[3])
    IN  [px |-> <<d1.value, d2.value, d3.value>>, gen |-> d3.gen]

\* ( ip, jp, kp ) of iteration t of the uniform loop nest.
SubIndex(per, t) == <<t \div (per * per), (t \div per) % per, t % per>>

UniformPosition_LowCorner(per, low, high, sub) ==
    [d \in 1..3 |->
        LET spacing == FDiv(FSub(high[d], low[d]), per)
        IN  FAdd(FMul(FInt(sub[d]), spacing), low[d])]

\* px[d] = 0.5 * spacing[d] + sub[d] * spacing[d] + low_coords[d].
UniformPosition(per, low, high, sub) ==
    [d \in 1..3 |->
        LET spacing == FDiv(FSub(high[d], low[d]), per)
        IN  FAdd(FAdd(FMul(Frac(1, 2), spacing),
                      FMul(FInt(sub[d]), spacing)), low[d])]

ParticleVolume_PerDim(policy, per, node) == FDiv(Measure(node), per)

\* pv = local_mesh.measure( Cajita::Cell(), low_node ) / particles_per_cell.
ParticleVolume(policy, per, node) ==
    FDiv(Measure(node), ParticlesPerCell(policy, per))

\* The caller's creation functor: accepts the ids in acc, fills member f0
\* and leaves member f1 as it found it in the particle handed in.
createFunctor(acc, pid, particle) ==
    [created |-> pid \in acc,
     particle |-> [particle EXCEPT !.f0 = 1 + (pid % 2)]]

\* ParticleList::getParticle( pid ).
getParticle(c, h, pid) == getTuple(c, h, pid)

\* ParticleList::setParticle( particle, idx ).
setParticle(c, h, particle, idx) == setTuple(c, h, idx, particle)

atomic_fetch_add_NoAdd(cnt, v) == [old |-> cnt, new |-> cnt]

\* Kokkos::atomic_fetch_add( &count( 0 ), v ).
atomic_fetch_add(cnt, v) == [old |-> cnt, new |-> cnt + v]

InsertIndex_Pid(c, pid) == pid

\* The list index the created particle is inserted at: the fetched count.
InsertIndex(c, pid) == c

FenceReady_NoWait(pr) == TRUE

\* Kokkos::fence() returns once every work item of the dispatch is complete.
FenceReady(pr) == \A cell \in DOMAIN pr : pr[cell].pc = "done"

\* AoSoA::shrinkToFit(): reallocate to exactly the blocks in use.
shrinkToFit(c, h) ==
    IF c.num_soa * VectorLength = c.capacity
    THEN [c |-> c, h |-> h]
    ELSE IF c.num_soa = 0
         THEN [c |-> [c EXCEPT !.capacity = 0, !.data = 0],
               h |-> Release(h, c.data)]
         ELSE LET r == KokkosResize(h, c.data, c.num_soa)
              IN  [c |-> storePointersAndStrides(
                             [c EXCEPT !.capacity = c.num_soa * VectorLength,
                                       !.data = r.addr]),
                   h |-> r.heap]

\* The creation functors of the model, as the sets of ids they accept.
AcceptFamily(ncand) ==
    { {pid \in 0..(ncand - 1) : pid % m \in R} :
          <<m, R>> \in UNION { {m} \X SUBSET (0..(m - 1)) : m \in 1..AcceptMod } }

\* The records callers hand to setTuple.
WrittenTuple == {t \in Tuple : t.f0 = t.f1}

\* A record left in the container by its previous use.
OldTuple == [f0 |-> 0, f1 |-> 1]

(***************************************************************************)
(* Groups of state variables and their idle values.                        *)
(***************************************************************************)
NoMap == [x \in {} |-> 0]

cvars == <<aosoa, heap, threw, last, pre>>

gvars == <<hostpc, cfg, count, count_host, prod, filled, slot, wrote,
           calls, ntrue, ret>>

vars == <<aosoa, heap, threw, last, pre,
          hostpc, cfg, count, count_host, prod, filled, slot, wrote,
          calls, ntrue, ret, other, realloc, via,
          schema, positions, pwrites, args, opcall, visited, dst>>

hvars == <<other, realloc, via>>

pvars == <<schema, positions, pwrites, args>>

ovars == <<opcall, visited, dst>>

\* No PARTICLE_OP call and no deep_copy has been made.
NoOp ==
    /\ opcall = <<>>
    /\ visited = {}
    /\ dst = <<>>

\* No positions-only call has been made and no functor call recorded.
NoPos ==
    /\ positions = <<>>
    /\ pwrites = NoMap
    /\ args = NoMap

\* No copy of the container object exists.
NoCopy ==
    /\ other = <<>>
    /\ realloc = FALSE
    /\ via = "a"

NoCfg == [policy |-> "none", cells |-> 0, per |-> 0, shrink |-> FALSE,
          accept |-> {}, seed |-> 0, blockId |-> 0, ext |-> <<0, 0, 0>>,
          len |-> 0, ndebug |-> FALSE]

GenIdle(pc) ==
    /\ hostpc = pc
    /\ cfg = NoCfg
    /\ count = 0
    /\ count_host = 0
    /\ prod = NoMap
    /\ filled = NoMap
    /\ slot = NoMap
    /\ wrote = NoMap
    /\ calls = NoMap
    /\ ntrue = 0
    /\ ret = 0

\* A container of one of the container types is constructed; a type whose
\* static_assert fails does not compile and gives no container.
Init ==
    /\ schema \in Schemas
    /\ IF StaticAssertStride(schema)
       THEN /\ \E n \in NRange :
                  LET r == IF n = 0 THEN [c |-> AoSoADefault, h |-> EmptyHeap]
                                    ELSE AoSoAWithSize(n)
                  IN  /\ aosoa = r.c
                      /\ heap = r.h
                      /\ last = [op |-> "construct", n |-> n, idx |-> 0,
                                 tpl |-> ZeroTuple]
            /\ GenIdle("api")
       ELSE /\ aosoa = AoSoADefault
            /\ heap = EmptyHeap
            /\ last = [op |-> "rejected", n |-> 0, idx |-> 0, tpl |-> ZeroTuple]
            /\ GenIdle("rejected")
    /\ threw = FALSE
    /\ pre = AoSoADefault
    /\ NoCopy
    /\ NoPos
    /\ NoOp

Resize ==
    /\ hostpc = "api"
    /\ ~threw
    /\ \E n \in NRange, allocOk \in BOOLEAN :
          LET r == resize(aosoa, heap, n, allocOk)
          IN  /\ aosoa' = r.c
              /\ heap' = r.h
              /\ threw' = r.threw
              /\ last' = [op |-> "resize", n |-> n, idx |-> 0, tpl |-> ZeroTuple]
    /\ pre' = aosoa
    /\ UNCHANGED gvars
    /\ UNCHANGED hvars
    /\ UNCHANGED ovars
    /\ UNCHANGED pvars

Reserve ==
    /\ hostpc = "api"
    /\ ~threw
    /\ \E n \in NRange, allocOk \in BOOLEAN :
          LET r == reserve(aosoa, heap, n, allocOk)
          IN  /\ aosoa' = r.c
              /\ heap' = r.h
              /\ threw' = r.threw
              /\ last' = [op |-> "reserve", n |-> n, idx |-> 0, tpl |-> ZeroTuple]
    /\ pre' = aosoa
    /\ UNCHANGED gvars
    /\ UNCHANGED hvars
    /\ UNCHANGED ovars
    /\ UNCHANGED pvars

SetTuple ==
    /\ hostpc = "api"
    /\ ~threw
    /\ \E idx \in 0..(aosoa.size - 1), tpl \in WrittenTuple :
          /\ heap' = setTuple(aosoa, heap, idx, tpl)
          /\ last' = [op |-> "setTuple", n |-> 0, idx |-> idx, tpl |-> tpl]
    /\ pre' = aosoa
    /\ UNCHANGED <<aosoa, threw>>
    /\ UNCHANGED gvars
    /\ UNCHANGED hvars
    /\ UNCHANGED ovars
    /\ UNCHANGED pvars

Next == Resize \/ Reserve \/ SetTuple

Spec == Init /\ [][Next]_vars

(***************************************************************************)
(* One createParticles call.  The container arrives holding n0 records of  *)
(* an earlier use.                                                         *)
(***************************************************************************)
InitGen ==
    /\ schema = DefaultSchema
    /\ \E n0 \in {0, MaxN} :
          LET r == IF n0 = 0 THEN [c |-> AoSoADefault, h |-> EmptyHeap]
                             ELSE AoSoAWithSize(n0)
          IN  /\ aosoa = r.c
              /\ heap = [a \in DOMAIN r.h |->
                            [r.h[a] EXCEPT !.blocks =
                                [s \in DOMAIN r.h[a].blocks |->
                                    [i \in 0..(VectorLength - 1) |->
                                        IF (s - 1) * VectorLength + i < n0
                                        THEN OldTuple ELSE ZeroTuple]]]]
              /\ last = [op |-> "construct", n |-> n0, idx |-> 0, tpl |-> ZeroTuple]
    /\ threw = FALSE
    /\ pre = AoSoADefault
    /\ GenIdle("ready")
    /\ NoCopy
    /\ NoPos
    /\ NoOp

NumCand == ParticlesPerCell(cfg.policy, cfg.per) * cfg.cells

\* Entry: size the list for the whole grid, zero the count, dispatch one
\* work item per owned cell.
GenStart ==
    /\ hostpc = "ready"
    /\ \E policy \in {"random", "uniform"}, cells \in 1..MaxCells,
          per \in 1..MaxPer, shrink \in BOOLEAN :
          LET num_particles == ParticlesPerCell(policy, per) * cells
              seed == DefaultSeed
              r == resize(aosoa, heap, num_particles, TRUE)
          IN  /\ num_particles <= MaxCand
              /\ \E acc \in AcceptFamily(num_particles) :
                    cfg' = [policy |-> policy, cells |-> cells, per |-> per,
                            shrink |-> shrink, accept |-> acc,
                            seed |-> seed, blockId |-> MaxBlockId,
                            ext |-> <<cells, 1, 1>>,
                            len |-> 0, ndebug |-> FALSE]
              /\ aosoa' = r.c
              /\ heap' = r.h
              /\ prod' = [cell \in 0..(cells - 1) |->
                            [pc |-> "get", t |-> 0, particle |-> ZeroTuple,
                             c |-> 0,
                             rand |-> GetState(
                                 PoolInit(LocalSeed(seed, MaxBlockId), cells),
                                 CellId(<<cells, 1, 1>>,
                                        CellOf(<<cells, 1, 1>>, cell)))]]
              /\ args' = [cell \in 0..(cells - 1) |-> <<>>]
    /\ count' = 0
    /\ hostpc' = "launched"
    /\ UNCHANGED <<threw, last, pre, count_host, filled, slot, wrote,
                   calls, ntrue, ret>>
    /\ UNCHANGED hvars
    /\ UNCHANGED ovars
    /\ UNCHANGED <<schema, positions, pwrites>>

\* The cell of work item w, its cell_id and the pid of its current
\* iteration.
NodeOf(w) == CellOf(cfg.ext, w)

CellIdOf(w) == CellId(cfg.ext, NodeOf(w))

PidOf(cell) ==
    LocalParticleId(cfg.policy, cfg.per, CellIdOf(cell), prod[cell].t)

\* px of the current iteration of work item w, and the generator after it.
PositionOf(w) ==
    LET low == Coordinates(NodeOf(w))
        high == Coordinates([d \in 1..3 |-> NodeOf(w)[d] + 1])
    IN  IF cfg.policy = "uniform"
        THEN [px |-> UniformPosition(cfg.per, low, high,
                                     SubIndex(cfg.per, prod[w].t)),
              gen |-> prod[w].rand]
        ELSE RandomPosition(prod[w].rand, low, high)

Advance_SkipLast(pr) ==
    IF pr.t + 2 < ParticlesPerCell(cfg.policy, cfg.per)
    THEN [pr EXCEPT !.pc = "get", !.t = pr.t + 1, !.particle = ZeroTuple,
                    !.c = 0]
    ELSE [pr EXCEPT !.pc = "done", !.particle = ZeroTuple, !.c = 0]

\* Next iteration of the creation loop, or the end of the work item.
Advance(pr) ==
    IF pr.t + 1 < ParticlesPerCell(cfg.policy, cfg.per)
    THEN [pr EXCEPT !.pc = "get", !.t = pr.t + 1, !.particle = ZeroTuple,
                    !.c = 0]
    ELSE [pr EXCEPT !.pc = "done", !.particle = ZeroTuple, !.c = 0]

\* The position and volume of the candidate, getParticle( pid ) and the
\* call create_functor( pid, px, pv, particle ).
ProducerCreate(cell) ==
    /\ prod[cell].pc = "get"
    /\ LET pid == PidOf(cell)
           pos == PositionOf(cell)
           pv == ParticleVolume(cfg.policy, cfg.per, NodeOf(cell))
           f == createFunctor(cfg.accept, pid, getParticle(aosoa, heap, pid))
           pr == [prod[cell] EXCEPT !.rand = pos.gen]
       IN  /\ args' = [args EXCEPT ![cell] =
                           Append(@, [pid |-> pid, px |-> pos.px, pv |-> pv])]
           /\ calls' = [x \in (DOMAIN calls \cup {pid}) |->
                            IF x = pid
                            THEN (IF pid \in DOMAIN calls
                                  THEN calls[pid] + 1 ELSE 1)
                            ELSE calls[x]]
           /\ IF f.created
              THEN /\ prod' = [prod EXCEPT ![cell] =
                                  [pr EXCEPT !.pc = "add",
                                             !.particle = f.particle]]
                   /\ filled' = [x \in (DOMAIN filled \cup {pid}) |->
                                    IF x = pid THEN f.particle ELSE filled[x]]
                   /\ ntrue' = ntrue + 1
              ELSE /\ prod' = [prod EXCEPT ![cell] = Advance(pr)]
                   /\ UNCHANGED <<filled, ntrue>>
    /\ UNCHANGED <<cvars, hostpc, cfg, count, count_host, slot, wrote, ret>>
    /\ UNCHANGED hvars
    /\ UNCHANGED ovars
    /\ UNCHANGED <<schema, positions, pwrites>>

\* auto c = Kokkos::atomic_fetch_add( &count( 0 ), 1 ).
ProducerFetchAdd(cell) ==
    /\ prod[cell].pc = "add"
    /\ LET r == atomic_fetch_add(count, 1)
           pid == PidOf(cell)
       IN  /\ count' = r.new
           /\ prod' = [prod EXCEPT ![cell].pc = "set", ![cell].c = r.old]
           /\ slot' = [x \in (DOMAIN slot \cup {pid}) |->
                          IF x = pid THEN r.old ELSE slot[x]]
    /\ UNCHANGED <<cvars, hostpc, cfg, count_host, filled, wrote,
                   calls, ntrue, ret>>
    /\ UNCHANGED hvars
    /\ UNCHANGED ovars
    /\ UNCHANGED pvars

\* particle_list.setParticle( particle, c ).
ProducerInsert(cell) ==
    /\ prod[cell].pc = "set"
    /\ LET pid == PidOf(cell)
           idx == InsertIndex(prod[cell].c, pid)
       IN  /\ heap' = setParticle(aosoa, heap, prod[cell].particle, idx)
           /\ wrote' = [x \in (DOMAIN wrote \cup {pid}) |->
                           IF x = pid THEN idx ELSE wrote[x]]
    /\ prod' = [prod EXCEPT ![cell] = Advance(prod[cell])]
    /\ UNCHANGED <<aosoa, threw, last, pre, hostpc, cfg, count, count_host,
                   filled, slot, calls, ntrue, ret>>
    /\ UNCHANGED hvars
    /\ UNCHANGED ovars
    /\ UNCHANGED pvars

Producer ==
    /\ hostpc = "launched"
    /\ \E cell \in DOMAIN prod :
          \/ ProducerCreate(cell)
          \/ ProducerFetchAdd(cell)
          \/ ProducerInsert(cell)

\* Kokkos::fence().
Fence ==
    /\ hostpc = "launched"
    /\ FenceReady(prod)
    /\ hostpc' = "fenced"
    /\ UNCHANGED <<cvars, cfg, count, count_host, prod, filled, slot, wrote,
                   calls, ntrue, ret>>
    /\ UNCHANGED hvars
    /\ UNCHANGED ovars
    /\ UNCHANGED pvars

\* create_mirror_view_and_copy( HostSpace(), count ).
ReadCount ==
    /\ hostpc = "fenced"
    /\ count_host' = count
    /\ hostpc' = "read"
    /\ UNCHANGED <<cvars, cfg, count, prod, filled, slot, wrote,
                   calls, ntrue, ret>>
    /\ UNCHANGED hvars
    /\ UNCHANGED ovars
    /\ UNCHANGED pvars

Finish_NoResize ==
    /\ hostpc = "read"
    /\ ret' = count_host
    /\ hostpc' = "done"
    /\ UNCHANGED <<cvars, cfg, count, count_host, prod, filled,
                   slot, wrote, calls, ntrue>>
    /\ UNCHANGED hvars
    /\ UNCHANGED ovars
    /\ UNCHANGED pvars

\* aosoa.resize( count_host( 0 ) ), the optional shrinkToFit, the return.
Finish ==
    /\ hostpc = "read"
    /\ LET r == resize(aosoa, heap, count_host, TRUE)
           q == IF cfg.shrink THEN shrinkToFit(r.c, r.h)
                              ELSE [c |-> r.c, h |-> r.h]
       IN  /\ aosoa' = q.c
           /\ heap' = q.h
    /\ ret' = count_host
    /\ hostpc' = "done"
    /\ UNCHANGED <<threw, last, pre, cfg, count, count_host, prod, filled,
                   slot, wrote, calls, ntrue>>
    /\ UNCHANGED hvars
    /\ UNCHANGED ovars
    /\ UNCHANGED pvars

NextGen == GenStart \/ Producer \/ Fence \/ ReadCount \/ Finish

SpecGen == InitGen /\ [][NextGen]_vars

(***************************************************************************)
(* One positions-only createParticles call: the candidates' positions are  *)
(* written into storage the caller provides.                               *)
(***************************************************************************)
InitPos ==
    /\ schema = DefaultSchema
    /\ aosoa = AoSoADefault
    /\ heap = EmptyHeap
    /\ last = [op |-> "construct", n |-> 0, idx |-> 0, tpl |-> ZeroTuple]
    /\ threw = FALSE
    /\ pre = AoSoADefault
    /\ GenIdle("posready")
    /\ NoCopy
    /\ NoPos
    /\ NoOp

\* The owned index spaces of the positions-only calls.
Extents == {<<ex, ey, 1>> : ex \in 1..MaxExtent, ey \in 1..MaxExtent}

\* Entry: the pool is seeded, the size of positions is asserted, one work
\* item per owned cell is dispatched.  The assertion is compiled out when
\* NDEBUG is defined; when it fails the process is aborted.
PosStart ==
    /\ hostpc = "posready"
    /\ \E policy \in {"random", "uniform"}, ext \in Extents, per \in 1..MaxPer,
          blockId \in BlockIds, dlen \in {0 - 1, 0, 1}, ndebug \in BOOLEAN :
          \E seed \in SeedsOf(policy) :
          LET n == ParticlesPerCell(policy, per) * OwnedSize(ext)
              len == n + dlen
          IN  /\ n <= MaxCand
              /\ policy = "uniform" => blockId = 0
              /\ cfg' = [policy |-> policy, cells |-> OwnedSize(ext),
                         per |-> per, shrink |-> FALSE, accept |-> {},
                         seed |-> seed, blockId |-> blockId, ext |-> ext,
                         len |-> len, ndebug |-> ndebug]
              /\ positions' = [x \in 0..(len - 1) |-> <<>>]
              /\ IF len # n /\ ~ndebug
                 THEN /\ hostpc' = "aborted"
                      /\ prod' = NoMap
                 ELSE /\ hostpc' = "poslaunched"
                      /\ prod' = [w \in 0..(OwnedSize(ext) - 1) |->
                                    [pc |-> "get", t |-> 0,
                                     particle |-> ZeroTuple, c |-> 0,
                                     rand |-> GetState(
                                         PoolInit(LocalSeed(seed, blockId),
                                                  OwnedSize(ext)),
                                         CellId(ext, CellOf(ext, w)))]]
    /\ pwrites' = NoMap
    /\ UNCHANGED <<cvars, count, count_host, filled, slot, wrote,
                   calls, ntrue, ret>>
    /\ UNCHANGED hvars
    /\ UNCHANGED ovars
    /\ UNCHANGED <<schema, args>>

\* One iteration of the creation loop of work item w: the position of the
\* candidate is stored at positions( pid, 0..2 ).  A pid outside the
\* storage is an out-of-bounds write: the process dies or memory outside
\* the storage is overwritten.
PosWrite(w) ==
    /\ prod[w].pc = "get"
    /\ LET pid == PidOf(w)
           pos == PositionOf(w)
           pr == [prod[w] EXCEPT !.rand = pos.gen]
           logged == [x \in (DOMAIN pwrites \cup {pid}) |->
                         IF x = pid
                         THEN (IF pid \in DOMAIN pwrites
                               THEN Append(pwrites[pid], <<w, prod[w].t>>)
                               ELSE << <<w, prod[w].t>> >>)
                         ELSE pwrites[x]]
       IN  IF pid \in DOMAIN positions
           THEN /\ positions' = [positions EXCEPT ![pid] = pos.px]
                /\ pwrites' = logged
                /\ prod' = [prod EXCEPT ![w] = Advance(pr)]
                /\ UNCHANGED hostpc
           ELSE \/ /\ hostpc' = "crashed"
                   /\ UNCHANGED <<positions, pwrites, prod>>
                \/ /\ pwrites' = logged
                   /\ prod' = [prod EXCEPT ![w] = Advance(pr)]
                   /\ UNCHANGED <<positions, hostpc>>
    /\ UNCHANGED <<cvars, cfg, count, count_host, filled, slot, wrote,
                   calls, ntrue, ret>>
    /\ UNCHANGED hvars
    /\ UNCHANGED ovars
    /\ UNCHANGED <<schema, args>>

PosProducer ==
    /\ hostpc \in {"poslaunched", "posreturned"}
    /\ \E w \in DOMAIN prod : PosWrite(w)

\* The call returns; nothing in it waits for the dispatched work items.
PosReturn ==
    /\ hostpc = "poslaunched"
    /\ hostpc' = "posreturned"
    /\ UNCHANGED <<cvars, cfg, count, count_host, prod, filled, slot, wrote,
                   calls, ntrue, ret>>
    /\ UNCHANGED hvars
    /\ UNCHANGED ovars
    /\ UNCHANGED pvars

NextPos == PosStart \/ PosProducer \/ PosReturn

SpecPos == InitPos /\ [][NextPos]_vars

(***************************************************************************)
(* One createParticles call of any of the four overloads.                  *)
(***************************************************************************)
InitAll == InitGen \/ InitPos

NextAll == NextGen \/ NextPos

SpecAll == InitAll /\ [][NextAll]_vars

(***************************************************************************)
(* Two handles: the container object and a copy of it, used side by side.  *)
(***************************************************************************)
InitCopy ==
    /\ schema = DefaultSchema
    /\ \E n \in 0..MaxCopyN :
          LET r == IF n = 0 THEN [c |-> AoSoADefault, h |-> EmptyHeap]
                            ELSE AoSoAWithSize(n)
          IN  /\ aosoa = r.c
              /\ heap = r.h
              /\ last = [op |-> "construct", n |-> n, idx |-> 0, tpl |-> ZeroTuple]
    /\ threw = FALSE
    /\ pre = AoSoADefault
    /\ GenIdle("handles")
    /\ NoCopy
    /\ NoPos
    /\ NoOp

Handles == IF other = <<>> THEN {"a"} ELSE {"a", "b"}

Handle(w) == IF w = "a" THEN aosoa ELSE other[1]

\* AoSoA b = a, or b = a for an existing b.
Copy ==
    /\ hostpc = "handles"
    /\ ~threw
    /\ LET r == AoSoACopy(aosoa, heap)
       IN  /\ other' = <<r.c>>
           /\ heap' = IF other = <<>> THEN r.h
                                      ELSE Release(r.h, other[1].data)
    /\ realloc' = FALSE
    /\ via' = "a"
    /\ last' = [op |-> "copy", n |-> 0, idx |-> 0, tpl |-> ZeroTuple]
    /\ UNCHANGED <<aosoa, threw, pre>>
    /\ UNCHANGED gvars
    /\ UNCHANGED pvars
    /\ UNCHANGED ovars

\* The container object of handle w becomes c.
Store(w, c) ==
    IF w = "a" THEN aosoa' = c /\ other' = other
               ELSE other' = <<c>> /\ aosoa' = aosoa

HandleResize ==
    /\ hostpc = "handles"
    /\ ~threw
    /\ \E w \in Handles, n \in 0..MaxCopyN :
          \E allocOk \in (IF n > Handle(w).capacity THEN BOOLEAN ELSE {TRUE}) :
          LET r == resize(Handle(w), heap, n, allocOk)
          IN  /\ Store(w, r.c)
              /\ heap' = r.h
              /\ threw' = r.threw
              /\ realloc' = (realloc \/ r.c.data # Handle(w).data)
              /\ via' = w
              /\ last' = [op |-> "resize", n |-> 0, idx |-> 0, tpl |-> ZeroTuple]
    /\ UNCHANGED pre
    /\ UNCHANGED gvars
    /\ UNCHANGED pvars
    /\ UNCHANGED ovars

HandleReserve ==
    /\ hostpc = "handles"
    /\ ~threw
    /\ \E w \in Handles, n \in 0..MaxCopyN :
          \E allocOk \in (IF n > Handle(w).capacity THEN BOOLEAN ELSE {TRUE}) :
          LET r == reserve(Handle(w), heap, n, allocOk)
          IN  /\ Store(w, r.c)
              /\ heap' = r.h
              /\ threw' = r.threw
              /\ realloc' = (realloc \/ r.c.data # Handle(w).data)
              /\ via' = w
              /\ last' = [op |-> "reserve", n |-> 0, idx |-> 0, tpl |-> ZeroTuple]
    /\ UNCHANGED pre
    /\ UNCHANGED gvars
    /\ UNCHANGED pvars
    /\ UNCHANGED ovars

HandleSetTuple ==
    /\ hostpc = "handles"
    /\ ~threw
    /\ \E w \in Handles :
          \E idx \in 0..(Handle(w).size - 1), tpl \in WrittenTuple \ {ZeroTuple} :
              /\ heap' = setTuple(Handle(w), heap, idx, tpl)
              /\ via' = w
              /\ last' = [op |-> "setTuple", n |-> 0, idx |-> idx, tpl |-> tpl]
    /\ UNCHANGED <<aosoa, other, realloc, threw, pre>>
    /\ UNCHANGED gvars
    /\ UNCHANGED pvars
    /\ UNCHANGED ovars

NextCopy == Copy \/ HandleResize \/ HandleReserve \/ HandleSetTuple

SpecCopy == InitCopy /\ [][NextCopy]_vars

(***************************************************************************)
(* The CPU PARTICLE_OP wrapper: a kernel is run over the vectors of the    *)
(* global particle list.  VEC_LEN is the list's vector_length.             *)
(***************************************************************************)
\* num_vecs = ( num_particle + VEC_LEN - 1 ) / VEC_LEN.
NumVecs(num_particle) == CDiv(num_particle + VectorLength - 1, VectorLength)

\* start_vec = sp / VEC_LEN - 1.
StartVec(sp) == CDiv(sp, VectorLength) - 1

\* Kokkos::RangePolicy( begin, end ): the indices begin .. end - 1.
RangePolicy(begin, end) == begin..(end - 1)

\* The vector indices of the dispatch of the call made.
OpRange == RangePolicy(StartVec(opcall[1].sp), NumVecs(opcall[1].np))

\* particle_allocation( np ): the list is constructed with np particles and
\* resized to np.
InitOp ==
    /\ schema = DefaultSchema
    /\ \E n \in 1..MaxN :
          LET r == AoSoAWithSize(n)
              r2 == resize(r.c, r.h, n, TRUE)
          IN  /\ aosoa = r2.c
              /\ heap = r2.h
              /\ last = [op |-> "construct", n |-> n, idx |-> 0, tpl |-> ZeroTuple]
    /\ threw = FALSE
    /\ pre = AoSoADefault
    /\ GenIdle("op")
    /\ NoCopy
    /\ NoPos
    /\ NoOp

\* C_FUNC( sp, np ) is entered for particles sp .. np of the list, counted
\* from 1, and dispatches the kernel over the range policy.
OpCall ==
    /\ hostpc = "op"
    /\ \E sp \in 1..size(aosoa), np \in 1..size(aosoa) :
          /\ sp <= np
          /\ opcall' = <<[sp |-> sp, np |-> np]>>
    /\ visited' = {}
    /\ hostpc' = "opdispatched"
    /\ UNCHANGED <<cvars, cfg, count, count_host, prod, filled, slot, wrote,
                   calls, ntrue, ret, dst>>
    /\ UNCHANGED hvars
    /\ UNCHANGED pvars

\* One kernel call F_FUNC( p_loc + idx, one_vector, idx ).  An idx that is
\* not a block of the list makes p_loc + idx point outside its storage: the
\* process dies or the kernel works on foreign memory.
OpKernel ==
    /\ hostpc = "opdispatched"
    /\ \E idx \in OpRange \ visited :
          IF idx \in 0..(Extent(aosoa, heap) - 1)
          THEN /\ visited' = visited \cup {idx}
               /\ UNCHANGED hostpc
          ELSE \/ /\ hostpc' = "crashed"
                  /\ UNCHANGED visited
               \/ /\ visited' = visited \cup {idx}
                  /\ UNCHANGED hostpc
    /\ UNCHANGED <<cvars, cfg, count, count_host, prod, filled, slot, wrote,
                   calls, ntrue, ret, opcall, dst>>
    /\ UNCHANGED hvars
    /\ UNCHANGED pvars

\* parallel_for has run every index of the policy; C_FUNC returns 0.
OpReturn ==
    /\ hostpc = "opdispatched"
    /\ OpRange \subseteq visited
    /\ hostpc' = "opreturned"
    /\ UNCHANGED <<cvars, cfg, count, count_host, prod, filled, slot, wrote,
                   calls, ntrue, ret>>
    /\ UNCHANGED hvars
    /\ UNCHANGED pvars
    /\ UNCHANGED ovars

NextOp == OpCall \/ OpKernel \/ OpReturn

SpecOp == InitOp /\ [][NextOp]_vars

(***************************************************************************)
(* deep_copy( dst, src ) between two containers of the same member types   *)
(* and size whose vector lengths may differ.                               *)
(***************************************************************************)
\* The vector lengths of the destination containers.
DstWidths == 1..(VectorLength + 1)

\* A destination container of vector length w constructed with n tuples.
DstAoSoA(w, n) ==
    [vector_length |-> w, size |-> n,
     blocks |-> [s \in 1..((n + w - 1) \div w) |->
                    [i \in 0..(w - 1) |-> ZeroTuple]]]

\* The tuple at index idx of a destination container.
DstTuple(d, idx) ==
    d.blocks[(idx \div d.vector_length) + 1][idx % d.vector_length]

\* deep_copy( d, c ): every tuple of c is assigned to the tuple of d with
\* the same index.
deep_copy(d, c, h) ==
    [d EXCEPT !.blocks =
        [s \in DOMAIN d.blocks |->
            [i \in 0..(d.vector_length - 1) |->
                LET idx == (s - 1) * d.vector_length + i
                IN  IF idx < d.size THEN getTuple(c, h, idx)
                                    ELSE d.blocks[s][i]]]]

\* The source container is constructed with n tuples.
InitDeep ==
    /\ schema = DefaultSchema
    /\ \E n \in 0..MaxN :
          LET r == IF n = 0 THEN [c |-> AoSoADefault, h |-> EmptyHeap]
                            ELSE AoSoAWithSize(n)
          IN  /\ aosoa = r.c
              /\ heap = r.h
              /\ last = [op |-> "construct", n |-> n, idx |-> 0, tpl |-> ZeroTuple]
    /\ threw = FALSE
    /\ pre = AoSoADefault
    /\ GenIdle("deep")
    /\ NoCopy
    /\ NoPos
    /\ NoOp

\* The caller initialises a tuple of the source.
DeepFill ==
    /\ hostpc = "deep"
    /\ \E idx \in 0..(size(aosoa) - 1), tpl \in Tuple \ {ZeroTuple} :
          /\ heap' = setTuple(aosoa, heap, idx, tpl)
          /\ last' = [op |-> "setTuple", n |-> 0, idx |-> idx, tpl |-> tpl]
    /\ pre' = aosoa
    /\ UNCHANGED <<aosoa, threw>>
    /\ UNCHANGED gvars
    /\ UNCHANGED hvars
    /\ UNCHANGED pvars
    /\ UNCHANGED ovars

\* A destination of the same size is constructed and deep_copy is called.
DeepCopy ==
    /\ hostpc = "deep"
    /\ \E w \in DstWidths :
          dst' = <<deep_copy(DstAoSoA(w, size(aosoa)), aosoa, heap)>>
    /\ hostpc' = "copied"
    /\ last' = [op |-> "deep_copy", n |-> 0, idx |-> 0, tpl |-> ZeroTuple]
    /\ UNCHANGED <<aosoa, heap, threw, pre, cfg, count, count_host, prod,
                   filled, slot, wrote, calls, ntrue, ret, opcall, visited>>
    /\ UNCHANGED hvars
    /\ UNCHANGED pvars

NextDeep == DeepFill \/ DeepCopy

SpecDeep == InitDeep /\ [][NextDeep]_vars

(***************************************************************************)
(* Properties of the container, checked under Spec.                        *)
(***************************************************************************)
CeilDiv(a, b) == (a + b - 1) \div b

Min2(a, b) == IF a <= b THEN a ELSE b

\* C4: for every n >= 0, once resize(n) has returned, size() == n and
\* capacity() >= n.
C4_ResizePost ==
    (last.op = "resize" /\ ~threw /\ last.n >= 0) =>
        (size(aosoa) = last.n /\ capacity(aosoa) >= last.n)

\* resize(n) has returned after growing the storage.
C4_Witness ==
    /\ last.op = "resize"
    /\ ~threw
    /\ last.n > pre.capacity
    /\ pre.capacity > 0

\* C5: size() <= capacity() in every reachable state of a container.
C5_SizeLeCapacity == size(aosoa) <= capacity(aosoa)

\* A resize or reserve has left the container exactly full.
C5_Witness ==
    /\ last.op \in {"resize", "reserve"}
    /\ size(aosoa) > 0
    /\ size(aosoa) = capacity(aosoa)

\* C6: a reserve or resize that reallocates the backing store leaves every
\* entry 0..size-1 of before the call with the same record, field by field.
C6_ReallocPreserves ==
    [][aosoa'.data # aosoa.data =>
          \A idx \in 0..(size(aosoa) - 1) :
              getTuple(aosoa', heap', idx) = getTuple(aosoa, heap, idx)]_vars

\* A non-empty container holding a written record has been reallocated.
C6_Witness ==
    /\ last.op \in {"resize", "reserve"}
    /\ ~threw
    /\ pre.size > 0
    /\ aosoa.data # pre.data
    /\ \E idx \in 0..(pre.size - 1) : getTuple(aosoa, heap, idx) # ZeroTuple

\* C7: getTuple(idx) == r right after setTuple(idx, r), and no operation that
\* keeps the capacity changes the record of an index that stays valid, other
\* than a setTuple at that very index.
C7_RoundTrip ==
    /\ [](last.op = "setTuple" =>
             getTuple(aosoa, heap, last.idx) = last.tpl)
    /\ [][capacity(aosoa') = capacity(aosoa) =>
             \A idx \in 0..(size(aosoa) - 1) :
                 (idx < size(aosoa') /\
                  ~(last'.op = "setTuple" /\ last'.idx = idx)) =>
                     getTuple(aosoa', heap', idx) = getTuple(aosoa, heap, idx)]_vars

\* A written record is still in place after a later resize or reserve that
\* kept the capacity.
C7_Witness ==
    /\ last.op \in {"resize", "reserve"}
    /\ capacity(aosoa) = pre.capacity
    /\ \E idx \in 0..(Min2(size(aosoa), pre.size) - 1) :
           getTuple(aosoa, heap, idx) # ZeroTuple

\* C8: a failed allocation inside reserve leaves capacity and size as they
\* were, and capacity() never exceeds what the backing store holds.
C8_ReserveAllOrNothing ==
    /\ threw => (capacity(aosoa) = pre.capacity /\ size(aosoa) = pre.size)
    /\ capacity(aosoa) <= Extent(aosoa, heap) * VectorLength

\* C9 as stated: numSoA() == ceil(capacity() / blockWidth) in every state.
C9_NumSoAIsCapacityBlocks ==
    ~threw => numSoA(aosoa) = CeilDiv(capacity(aosoa), VectorLength)

\* C9 amended: numSoA() == ceil(size() / blockWidth) whenever size() >= 0;
\* it never exceeds ceil(capacity() / blockWidth) and equals it whenever
\* size() > capacity() - blockWidth.
C9_NumSoATracksSize ==
    /\ size(aosoa) >= 0 => numSoA(aosoa) = CeilDiv(size(aosoa), VectorLength)
    /\ numSoA(aosoa) <= CeilDiv(capacity(aosoa), VectorLength)
    /\ size(aosoa) > capacity(aosoa) - VectorLength =>
           numSoA(aosoa) = CeilDiv(capacity(aosoa), VectorLength)

\* reserve(n) without resize has allocated more blocks than are in use.
C9_Witness ==
    /\ last.op = "reserve"
    /\ ~threw
    /\ capacity(aosoa) > pre.capacity
    /\ size(aosoa) > 0
    /\ numSoA(aosoa) < CeilDiv(capacity(aosoa), VectorLength)

\* C10: arraySize(s) is blockWidth for every block in use but the last, and
\* for the last one size mod blockWidth, or blockWidth when that is zero.
C10_ArraySize ==
    \A s \in 0..(numSoA(aosoa) - 1) :
        arraySize(aosoa, s) =
            IF s < numSoA(aosoa) - 1
            THEN VectorLength
            ELSE IF size(aosoa) % VectorLength = 0
                 THEN VectorLength
                 ELSE size(aosoa) % VectorLength

\* C11: reserve(n) with n > capacity() leaves capacity() equal to
\* ceil(n / blockWidth) * blockWidth, the smallest multiple of blockWidth
\* that is >= n, and on success the store holds exactly that many blocks.
C11_ReserveExactCapacity ==
    (last.op = "reserve" /\ last.n > pre.capacity) =>
        /\ capacity(aosoa) = CeilDiv(last.n, VectorLength) * VectorLength
        /\ capacity(aosoa) >= last.n
        /\ capacity(aosoa) - VectorLength < last.n
        /\ ~threw => Extent(aosoa, heap) = CeilDiv(last.n, VectorLength)

\* reserve(n) has grown an allocated container to an n that is not a
\* multiple of the block width.
C11_Witness ==
    /\ last.op = "reserve"
    /\ ~threw
    /\ pre.capacity > 0
    /\ last.n > pre.capacity
    /\ last.n % VectorLength # 0

\* C12: reserve(n) with n <= capacity() changes nothing: size, capacity,
\* block count, backing store, pointers, strides and every stored entry.
C12_ReserveNoOp ==
    [][(last'.op = "reserve" /\ last'.n <= capacity(aosoa)) =>
          (aosoa' = aosoa /\ heap' = heap /\ ~threw')]_vars

\* reserve(n) with size() < n <= capacity() was called on a container that
\* holds a written record.
C12_Witness ==
    /\ last.op = "reserve"
    /\ last.n <= pre.capacity
    /\ last.n > size(aosoa)
    /\ \E idx \in 0..(size(aosoa) - 1) : getTuple(aosoa, heap, idx) # ZeroTuple

\* C13: no resize or reserve step decreases capacity().
C13_CapacityMonotone ==
    [][capacity(aosoa') >= capacity(aosoa)]_vars

\* resize has taken a container of two or more blocks to a smaller size.
C13_Witness ==
    /\ last.op = "resize"
    /\ last.n < pre.size
    /\ pre.capacity >= 2 * VectorLength
    /\ last.n <= pre.capacity - VectorLength
    /\ capacity(aosoa) = pre.capacity

\* C14: resize(n) with n below the current size keeps capacity and backing
\* store, sets the size to n and leaves entries 0..n-1 as they were.
C14_ShrinkKeepsStorage ==
    [][(last'.op = "resize" /\ last'.n < size(aosoa)) =>
          /\ capacity(aosoa') = capacity(aosoa)
          /\ aosoa'.data = aosoa.data
          /\ Extent(aosoa', heap') = Extent(aosoa, heap)
          /\ size(aosoa') = last'.n
          /\ \A idx \in 0..(last'.n - 1) :
                 getTuple(aosoa', heap', idx) = getTuple(aosoa, heap, idx)]_vars

\* A container with written records was resized to a smaller non-zero size.
C14_Witness ==
    /\ last.op = "resize"
    /\ last.n < pre.size
    /\ last.n > 0
    /\ \E idx \in 0..(last.n - 1) : getTuple(aosoa, heap, idx) # ZeroTuple

\* C15: reserve(n) leaves size() and numSoA() unchanged, whether or not it
\* reallocates.
C15_ReserveKeepsSize ==
    [][(last'.op = "reserve") =>
          (size(aosoa') = size(aosoa) /\ numSoA(aosoa') = numSoA(aosoa))]_vars

\* reserve has reallocated a non-empty container.
C15_Witness ==
    /\ last.op = "reserve"
    /\ ~threw
    /\ aosoa.data # pre.data
    /\ size(aosoa) > 0

C17_SharedStore ==
    /\ []((other # <<>> /\ ~realloc) =>
             /\ other[1].data = aosoa.data
             /\ Cardinality(DOMAIN heap) <= 1
             /\ aosoa.data # 0 => heap[aosoa.data].refs = 2)
    /\ [][(last'.op = "copy") =>
             /\ DOMAIN heap' \subseteq DOMAIN heap
             /\ Blocks(heap', aosoa.data) = Blocks(heap, aosoa.data)]_vars
    /\ [][(last'.op = "setTuple" /\ other # <<>> /\ ~realloc) =>
             /\ getTuple(aosoa', heap', last'.idx) = last'.tpl
             /\ getTuple(other'[1], heap', last'.idx) = last'.tpl]_vars

\* A non-zero record was written through the copy of a container that holds
\* a non-zero record at index 0, neither handle has reallocated, and the
\* original returns the record written.
C17_Witness ==
    /\ other # <<>>
    /\ ~realloc
    /\ via = "b"
    /\ last.op = "setTuple"
    /\ last.tpl # ZeroTuple
    /\ last.idx > 0
    /\ getTuple(aosoa, heap, last.idx) = last.tpl
    /\ getTuple(aosoa, heap, 0) # ZeroTuple

\* C28: for every index idx the container can hold, the block index is
\* idx / w and the offset idx % w, with 0 <= offset < w and
\* block * w + offset = idx; distinct indices have distinct (block, offset)
\* pairs; setTuple( idx, r ) writes the entry at that pair and no other.
C28_IndexBijection ==
    /\ [](\A idx \in 0..(capacity(aosoa) - 1) :
             /\ IndexS(idx) = idx \div VectorLength
             /\ IndexI(idx) = idx % VectorLength
             /\ 0 <= IndexI(idx) /\ IndexI(idx) < VectorLength
             /\ IndexS(idx) * VectorLength + IndexI(idx) = idx
             /\ \A idy \in 0..(capacity(aosoa) - 1) :
                    idx # idy =>
                        <<IndexS(idx), IndexI(idx)>> # <<IndexS(idy), IndexI(idy)>>)
    /\ [][(last'.op = "setTuple") =>
             \A s \in 1..Extent(aosoa, heap), i \in 0..(VectorLength - 1) :
                 Blocks(heap', aosoa.data)[s][i] =
                     IF s - 1 = last'.idx \div VectorLength /\
                        i = last'.idx % VectorLength
                     THEN last'.tpl
                     ELSE Blocks(heap, aosoa.data)[s][i]]_vars

\* A non-zero record was written at an index of the second block that is
\* not the first of its block.
C28_Witness ==
    /\ last.op = "setTuple"
    /\ last.idx > VectorLength
    /\ last.tpl # ZeroTuple
    /\ getTuple(aosoa, heap, last.idx) = last.tpl

\* C29: a container constructed without argument has size 0, capacity 0
\* and no allocation; a container constructed with n >= 0 has size n and
\* capacity ceil(n / blockWidth) * blockWidth, held by that many blocks.
C29_Constructed ==
    (last.op = "construct" /\ last.n >= 0) =>
        /\ size(aosoa) = last.n
        /\ capacity(aosoa) = CeilDiv(last.n, VectorLength) * VectorLength
        /\ Extent(aosoa, heap) = CeilDiv(last.n, VectorLength)
        /\ last.n = 0 => (aosoa = AoSoADefault /\ heap = EmptyHeap)

\* A container was constructed with an n that is not a multiple of the
\* block width.
C29_Witness ==
    /\ last.op = "construct"
    /\ last.n > VectorLength
    /\ last.n % VectorLength # 0
    /\ aosoa.data # 0

Candidates == 0..(NumCand - 1)

Accepted == {pid \in Candidates : pid \in cfg.accept}

Range(f) == {f[x] : x \in DOMAIN f}

Injective(f) == \A x, y \in DOMAIN f : x # y => f[x] # f[y]

\* Number of list entries 0..n-1 holding record r.
EntryCount(n, r) ==
    Cardinality({idx \in 0..(n - 1) : getTuple(aosoa, heap, idx) = r})

\* Number of created candidates whose functor filled in record r.
FilledCount(r) == Cardinality({pid \in DOMAIN filled : filled[pid] = r})

\* C1: once createParticles has returned, entries 0..acceptedCount-1 hold,
\* as a multiset, exactly the records the functor filled in for the
\* candidates it returned true on.
C1_RetainedIsAccepted ==
    hostpc = "done" =>
        /\ DOMAIN filled = Accepted
        /\ size(aosoa) = ret
        /\ \A r \in Range(filled) \cup
                    {getTuple(aosoa, heap, idx) : idx \in 0..(ret - 1)} :
               EntryCount(ret, r) = FilledCount(r)

\* A call with two concurrent producers has returned having created some
\* candidates and rejected others.
C1_Witness ==
    /\ hostpc = "done"
    /\ cfg.cells > 1
    /\ ret > 1
    /\ ret < NumCand
    /\ \E p, q \in DOMAIN wrote : p < q /\ wrote[p] > wrote[q]

\* C2: every created candidate gets its slot from one fetch-and-add; the
\* slots handed out are pairwise distinct and are exactly 0..count-1, each
\* particle is inserted at its slot, and at the end they are 0..A-1 for the
\* A accepted candidates.
C2_SlotsUnique ==
    /\ Injective(slot)
    /\ Range(slot) = 0..(count - 1)
    /\ Injective(wrote)
    /\ \A pid \in DOMAIN wrote : pid \in DOMAIN slot /\ wrote[pid] = slot[pid]
    /\ hostpc \in {"fenced", "read", "done"} =>
           /\ DOMAIN slot = Accepted
           /\ DOMAIN wrote = Accepted
           /\ Range(slot) = 0..(Cardinality(Accepted) - 1)

\* Two producers hold fetched slots at the same time, before either insert.
C2_Witness ==
    /\ hostpc = "launched"
    /\ \E a, b \in DOMAIN prod :
           /\ a # b
           /\ prod[a].pc = "set"
           /\ prod[b].pc = "set"

\* C3: from the moment the host has read the count, every producer has
\* completed, the count read is the final count, and no producer step, count
\* update or insert happens any more.
C3_BarrierBeforeRead ==
    /\ [](hostpc \in {"read", "done"} =>
             /\ \A cell \in DOMAIN prod : prod[cell].pc = "done"
             /\ count_host = count
             /\ count = Cardinality(Accepted)
             /\ DOMAIN wrote = Accepted)
    /\ [][(hostpc = "read" \/ hostpc = "done") =>
             (prod' = prod /\ count' = count /\ wrote' = wrote)]_vars

\* The host has read a non-zero count produced by two producers.
C3_Witness ==
    /\ hostpc = "read"
    /\ cfg.cells > 1
    /\ count_host > 1

\* Total number of functor calls made so far.
RECURSIVE SumCalls(_)
SumCalls(S) ==
    IF S = {} THEN 0
    ELSE LET x == CHOOSE y \in S : TRUE
         IN  calls[x] + SumCalls(S \ {x})

\* C18: whatever the size of the container before the call, once
\* createParticles has returned, size() equals the number of functor calls
\* that returned true, which is the number of accepted candidates, and the
\* return value is that same number.
C18_SizeIsAcceptedCount ==
    hostpc = "done" =>
        /\ size(aosoa) = ntrue
        /\ ret = ntrue
        /\ ntrue = Cardinality(Accepted)

\* A call has returned on a container that held more records before the
\* call than the call had candidates, with some candidates rejected.
C18_Witness ==
    /\ hostpc = "done"
    /\ last.op = "construct"
    /\ last.n > NumCand
    /\ ret > 0
    /\ ret < NumCand

\* C19: uniform policy with c cells and per-dimension count m: when the
\* functor accepts every candidate the returned count is c * m^3.
C19_UniformCount ==
    (hostpc = "done" /\ cfg.policy = "uniform" /\ cfg.accept = Candidates) =>
        /\ ret = cfg.cells * cfg.per * cfg.per * cfg.per
        /\ ntrue = ret

\* A uniform accept-all call with more than one particle per dimension has
\* returned.
C19_Witness ==
    /\ hostpc = "done"
    /\ cfg.policy = "uniform"
    /\ cfg.per > 1
    /\ cfg.accept = Candidates

\* C20: random policy with c cells and k particles per cell: the functor is
\* never called more than c*k times, by the time the producers are complete
\* it has been called once on each of the c*k candidates, and the returned
\* count is at most c*k, equal to c*k when every candidate is accepted.
C20_RandomCount ==
    cfg.policy = "random" =>
        /\ SumCalls(DOMAIN calls) <= cfg.cells * cfg.per
        /\ hostpc \in {"fenced", "read", "done"} =>
               /\ DOMAIN calls = 0..(cfg.cells * cfg.per - 1)
               /\ \A pid \in DOMAIN calls : calls[pid] = 1
               /\ SumCalls(DOMAIN calls) = cfg.cells * cfg.per
        /\ hostpc = "done" =>
               /\ ret <= cfg.cells * cfg.per
               /\ cfg.accept = Candidates => ret = cfg.cells * cfg.per

\* A random accept-all call over two cells of two particles each has
\* returned.
C20_Witness ==
    /\ hostpc = "done"
    /\ cfg.policy = "random"
    /\ cfg.cells > 1
    /\ cfg.per > 1
    /\ cfg.accept = Candidates
    /\ ret = cfg.cells * cfg.per

\* C25: in the uniform policy the ids of successive functor calls of one
\* work item are strictly increasing.
C25_MonotoneIds ==
    cfg.policy = "uniform" =>
        \A w \in DOMAIN args :
            \A a \in 1..(Len(args[w]) - 1) :
                args[w][a].pid < args[w][a + 1].pid

\* Sum of the volumes passed in a sequence of functor calls.
RECURSIVE SumVolumes(_)
SumVolumes(q) ==
    IF q = <<>> THEN FInt(0) ELSE FAdd(q[1].pv, SumVolumes(Tail(q)))

\* C26: uniform policy with per-dimension count m: every candidate of a
\* cell is given the volume measure / m^3, and the volumes of the m^3
\* candidates of a cell sum to the measure of the cell.
C26_WeightSum ==
    cfg.policy = "uniform" =>
        \A w \in DOMAIN args :
            /\ \A a \in 1..Len(args[w]) :
                   args[w][a].pv =
                       Frac(Measure(NodeOf(w)).num,
                            Measure(NodeOf(w)).den * cfg.per * cfg.per * cfg.per)
            /\ prod[w].pc = "done" =>
                   /\ Len(args[w]) = cfg.per * cfg.per * cfg.per
                   /\ SumVolumes(args[w]) = Measure(NodeOf(w))

\* A uniform call with two candidates per dimension, some of them rejected,
\* has returned.
C26_Witness ==
    /\ hostpc = "done"
    /\ cfg.policy = "uniform"
    /\ cfg.per > 1
    /\ ret < NumCand
    /\ \A w \in DOMAIN args : Len(args[w]) = cfg.per * cfg.per * cfg.per

(***************************************************************************)
(* Properties of the positions-only calls.                                 *)
(***************************************************************************)
AllWritten == \A w \in DOMAIN prod : prod[w].pc = "done"

PosRunning == hostpc \in {"poslaunched", "posreturned"}

\* C21: a positions-only call on storage of the required length writes the
\* candidate of iteration t of cell cell_id to slot
\* cell_id * particlesPerCell + p: under every interleaving no slot is
\* written twice, no slot outside 0..cells * particlesPerCell - 1 is written,
\* and when all work items are finished every slot has been written once.
C21_DistinctSlots ==
    (PosRunning /\ cfg.len = NumCand) =>
        /\ DOMAIN pwrites \subseteq 0..(NumCand - 1)
        /\ \A s \in DOMAIN pwrites :
               /\ Len(pwrites[s]) = 1
               /\ s = CellIdOf(pwrites[s][1][1])
                          * ParticlesPerCell(cfg.policy, cfg.per)
                      + LocalParticleId(cfg.policy, cfg.per, 0,
                                        pwrites[s][1][2])
        /\ AllWritten => DOMAIN pwrites = 0..(NumCand - 1)

\* A call over two by two cells with two candidates each has written all
\* its eight slots.
C21_Witness ==
    /\ PosRunning
    /\ cfg.len = NumCand
    /\ cfg.ext = <<2, 2, 1>>
    /\ cfg.per = 2
    /\ AllWritten
    /\ DOMAIN pwrites = 0..7

\* C22: a positions-only call on storage whose length is not
\* cells * particlesPerCell does not complete and writes no position.
C22_LengthMismatchRejected ==
    (cfg.policy # "none" /\ cfg.len # NumCand) =>
        /\ hostpc # "posreturned"
        /\ pwrites = NoMap

\* The owned cell of extents ext whose cell-local id is cell_id.
NodeOfId(ext, cell_id) ==
    CHOOSE node \in OwnedCells(ext) : CellId(ext, node) = cell_id

\* The position of the candidate with local particle id pid of a random
\* call, from the caller's seed, the partition identifier, the owned cells
\* and the id alone: draws 3p, 3p + 1, 3p + 2 of the stream of the cell.
ExpectedRandom(seed, blockId, ext, per, pid) ==
    LET cell_id == pid \div per
        p == pid % per
        node == NodeOfId(ext, cell_id)
        low == Coordinates(node)
        high == Coordinates([d \in 1..3 |-> node[d] + 1])
    IN  [d \in 1..3 |->
            [stream |-> <<LocalSeed(seed, blockId), cell_id>>,
             k |-> 3 * p + (d - 1), lo |-> low[d], hi |-> high[d]]]

\* C23: in every run of the random policy, under every interleaving, the
\* position stored at a slot (positions-only) and the position presented to
\* the predicate with an id (record-producing) is the one determined by the
\* caller's seed, the partition identifier, the owned cells and the id; two
\* runs that agree on these generate identical positions.
C23_Reproducible ==
    cfg.policy = "random" =>
        /\ \A w \in DOMAIN args : \A a \in 1..Len(args[w]) :
               args[w][a].px = ExpectedRandom(cfg.seed, cfg.blockId, cfg.ext,
                                              cfg.per, args[w][a].pid)
        /\ (PosRunning /\ cfg.len = NumCand) =>
               \A s \in DOMAIN positions :
                   positions[s] # <<>> =>
                       positions[s] = ExpectedRandom(cfg.seed, cfg.blockId,
                                                     cfg.ext, cfg.per, s)

\* A random positions-only call with a seed other than the default, on
\* partition 1, over two by two cells with two candidates each, has stored
\* all its positions.
C23_Witness ==
    /\ PosRunning
    /\ cfg.policy = "random"
    /\ cfg.seed # DefaultSeed
    /\ cfg.blockId = 1
    /\ cfg.ext = <<2, 2, 1>>
    /\ cfg.per = 2
    /\ cfg.len = NumCand
    /\ AllWritten
    /\ \A s \in 0..7 : positions[s] # <<>>

\* C24: the stream a cell of a random call draws from is the one selected
\* by its cell-local id, and it is the one the cell at the same grid
\* coordinates draws from under any other extents of the owned index space
\* that contain it.
C24_ExtentIndependent ==
    (PosRunning /\ cfg.policy = "random" /\ cfg.len = NumCand) =>
        \A s \in DOMAIN pwrites :
            LET w == pwrites[s][1][1]
                drawn == positions[s][1].stream
            IN  /\ drawn = <<LocalSeed(cfg.seed, cfg.blockId), CellIdOf(w)>>
                /\ \A ext2 \in Extents :
                       NodeOf(w) \in OwnedCells(ext2) =>
                           drawn = <<LocalSeed(cfg.seed, cfg.blockId),
                                     CellId(ext2, NodeOf(w))>>

\* The sub-grid index ( ip, jp, kp ) of the candidate with local particle id
\* pid of a uniform call.
SubIndexOfId(per, pid) ==
    LET l == pid % (per * per * per)
    IN  <<l % per, (l \div per) % per, l \div (per * per)>>

\* low + ( index + 1/2 ) * ( high - low ) / m in each dimension.
SubCellCentre(ext, per, pid) ==
    LET node == NodeOfId(ext, pid \div (per * per * per))
        low == Coordinates(node)
        high == Coordinates([d \in 1..3 |-> node[d] + 1])
        sub == SubIndexOfId(per, pid)
    IN  [d \in 1..3 |->
            FAdd(low[d], FDiv(FMul(Frac(2 * sub[d] + 1, 2),
                                   FSub(high[d], low[d])), per))]

\* The positions presented by a finished work item.
PresentedPositions(w) == {args[w][a].px : a \in 1..Len(args[w])}

\* { 1/4, 3/4 }^3.
QuarterPoints ==
    {<<x, y, z>> : x \in {Frac(1, 4), Frac(3, 4)},
                   y \in {Frac(1, 4), Frac(3, 4)},
                   z \in {Frac(1, 4), Frac(3, 4)}}

\* C27: uniform policy with per-dimension count m: each candidate is
\* positioned at the centre of its sub-cell, the m^3 positions of a cell are
\* pairwise distinct, and one cell [0,1]^3 with m = 2 and a predicate that
\* accepts everything gives 8 particles at {1/4, 3/4}^3 of volume 1/8 each.
C27_SubCellCentres ==
    cfg.policy = "uniform" =>
        /\ \A w \in DOMAIN args :
               /\ \A a \in 1..Len(args[w]) :
                      args[w][a].px =
                          SubCellCentre(cfg.ext, cfg.per, args[w][a].pid)
               /\ Cardinality(PresentedPositions(w)) = Len(args[w])
        /\ (PosRunning /\ cfg.len = NumCand) =>
               /\ \A s \in DOMAIN positions :
                      positions[s] # <<>> =>
                          positions[s] = SubCellCentre(cfg.ext, cfg.per, s)
               /\ \A s1, s2 \in DOMAIN positions :
                      (s1 # s2 /\ positions[s1] # <<>>) =>
                          positions[s1] # positions[s2]
        /\ (hostpc = "done" /\ cfg.cells = 1 /\ cfg.per = 2
              /\ cfg.accept = 0..7) =>
               /\ ret = 8
               /\ size(aosoa) = 8
               /\ PresentedPositions(0) = QuarterPoints
               /\ \A a \in 1..8 : args[0][a].pv = Frac(1, 8)

\* The uniform call on one cell with two candidates per dimension and a
\* predicate that accepts everything has returned.
C27_Witness ==
    /\ hostpc = "done"
    /\ cfg.policy = "uniform"
    /\ cfg.cells = 1
    /\ cfg.per = 2
    /\ cfg.accept = 0..7
    /\ ret = 8
    /\ Len(args[0]) = 8

(***************************************************************************)
(* Further properties of the container, checked under Spec.                *)
(***************************************************************************)
\* C34: in every reachable state numSoA() * blockWidth <= capacity(), so a
\* reserve( n ) with n > capacity() always asks for more blocks than are in
\* use: the second early return of reserve is never taken.
C34_BlocksInUseWithinCapacity ==
    /\ numSoA(aosoa) * VectorLength <= capacity(aosoa)
    /\ \A n \in 1..(MaxN + VectorLength) :
           n > capacity(aosoa) => CeilDiv(n, VectorLength) > numSoA(aosoa)

\* A resize has put every allocated block in use, the last one partly.
C34_Witness ==
    /\ last.op = "resize"
    /\ ~threw
    /\ capacity(aosoa) > pre.capacity
    /\ numSoA(aosoa) * VectorLength = capacity(aosoa)
    /\ size(aosoa) < capacity(aosoa)

\* C35: whenever size() >= 0, numSoA() == ceil( size() / blockWidth ), and a
\* reserve leaves numSoA() as it was.
C35_NumSoAFollowsSize ==
    /\ size(aosoa) >= 0 =>
           numSoA(aosoa) * VectorLength \in
               size(aosoa)..(size(aosoa) + VectorLength - 1)
    /\ last.op = "reserve" => numSoA(aosoa) = numSoA(pre)

\* A reserve has grown the storage of a non-empty container.
C35_Witness ==
    /\ last.op = "reserve"
    /\ ~threw
    /\ capacity(aosoa) > pre.capacity
    /\ size(aosoa) > 0
    /\ numSoA(aosoa) = numSoA(pre)
    /\ numSoA(aosoa) * VectorLength < capacity(aosoa)

\* C36: a slice holds the size and the number of SoAs of the container by
\* value: after a resize( n ) that leaves the capacity as it was, a slice
\* taken before it still has the old size and block count, not the new
\* ones, and its pointer and stride are those of the container now.
C36_SliceSnapshot ==
    (last.op = "resize" /\ ~threw /\ pre.data # 0
       /\ capacity(aosoa) = capacity(pre)) =>
        \A m \in Members :
            LET old == slice(pre, m)
                now == slice(aosoa, m)
            IN  /\ old.size = size(pre)
                /\ old.num_soa = numSoA(pre)
                /\ size(aosoa) # size(pre) => old.size # now.size
                /\ numSoA(aosoa) # numSoA(pre) => old.num_soa # now.num_soa
                /\ now.size = last.n
                /\ old.ptr = now.ptr
                /\ old.stride = now.stride

\* A resize within the capacity has changed the size and the block count.
C36_Witness ==
    /\ last.op = "resize"
    /\ ~threw
    /\ pre.data # 0
    /\ capacity(aosoa) = capacity(pre)
    /\ size(aosoa) # size(pre)
    /\ numSoA(aosoa) # numSoA(pre)
    /\ slice(pre, "f0").size # size(aosoa)

(***************************************************************************)
(* Further properties of two handles, checked under SpecCopy.              *)
(***************************************************************************)
OtherHandle(w) == IF w = "a" THEN "b" ELSE "a"

HandleAfter(w) == IF w = "a" THEN aosoa' ELSE other'[1]

\* C33: when one of two handles that share their store grows its capacity
\* by reserve or resize, only that handle gets the new store: the other
\* handle's size, capacity, store and records are as before, and a record
\* written through one handle afterwards does not change what the other
\* handle holds.
C33_RebindsOneHandle ==
    /\ [][\A w \in {"a", "b"} :
             (/\ other # <<>>
              /\ via' = w
              /\ last'.op \in {"resize", "reserve"}
              /\ ~threw'
              /\ Handle(w).data # 0
              /\ Handle(w).data = Handle(OtherHandle(w)).data
              /\ HandleAfter(w).data # Handle(w).data) =>
                 LET o == OtherHandle(w)
                 IN  /\ HandleAfter(o) = Handle(o)
                     /\ Handle(o).data \in DOMAIN heap'
                     /\ Blocks(heap', Handle(o).data) = Blocks(heap, Handle(o).data)
                     /\ HandleAfter(w).data # HandleAfter(o).data]_vars
    /\ [][\A w \in {"a", "b"} :
             (/\ other # <<>>
              /\ via' = w
              /\ last'.op = "setTuple"
              /\ Handle(w).data # Handle(OtherHandle(w)).data
              /\ Handle(OtherHandle(w)).data # 0) =>
                 LET o == OtherHandle(w)
                 IN  /\ Handle(o).data \in DOMAIN heap'
                     /\ Blocks(heap', Handle(o).data) = Blocks(heap, Handle(o).data)]_vars

\* The copy has grown its capacity and a record written through it differs
\* from the record the original holds at the same index.
C33_Witness ==
    /\ other # <<>>
    /\ realloc
    /\ aosoa.data # 0
    /\ other[1].data # aosoa.data
    /\ capacity(other[1]) > capacity(aosoa)
    /\ last.op = "setTuple"
    /\ via = "b"
    /\ last.idx < size(aosoa)
    /\ getTuple(other[1], heap, last.idx) = last.tpl
    /\ getTuple(aosoa, heap, last.idx) # last.tpl

(***************************************************************************)
(* Properties of the seed of the random policy.                            *)
(***************************************************************************)
\* The seed the pool of the running call was initialised with.
StreamSeeds == {prod[w].rand.seed : w \in DOMAIN prod}

\* C37: for a fixed caller seed, the stream seed of a random call on one
\* partition differs from the stream seed the call has on every other
\* partition.
C37_PartitionsDiffer ==
    (PosRunning /\ cfg.policy = "random") =>
        \A b \in BlockIds \ {cfg.blockId} :
            LocalSeed(cfg.seed, b) \notin StreamSeeds

\* C38: the stream seed is blockId + seed mod ( blockId + 1 ), which lies in
\* blockId..2 * blockId; on partition 0 it is 0 and every position stored is
\* the one that any other caller seed gives.
C38_SeedRange ==
    (PosRunning /\ cfg.policy = "random") =>
        /\ \A s \in StreamSeeds :
               /\ s = cfg.blockId + (cfg.seed % (cfg.blockId + 1))
               /\ s \in cfg.blockId..(2 * cfg.blockId)
        /\ cfg.blockId = 0 =>
               /\ StreamSeeds = {0}
               /\ cfg.len = NumCand =>
                      \A sl \in DOMAIN positions, s2 \in Seeds :
                          positions[sl] # <<>> =>
                              positions[sl] =
                                  ExpectedRandom(s2, 0, cfg.ext, cfg.per, sl)

\* A random call with a seed other than the default has stored all its
\* positions on partition 0.
C38_Witness ==
    /\ PosRunning
    /\ cfg.policy = "random"
    /\ cfg.blockId = 0
    /\ cfg.seed # DefaultSeed
    /\ cfg.len = NumCand
    /\ NumCand > 1
    /\ AllWritten
    /\ \A sl \in DOMAIN positions : positions[sl] # <<>>

\* C39: when a positions-only call on storage of the required length has
\* returned, all cells * particlesPerCell positions have been written.
C39_WritesCompleteAtReturn ==
    (hostpc = "posreturned" /\ cfg.len = NumCand) =>
        /\ AllWritten
        /\ \A sl \in 0..(NumCand - 1) : positions[sl] # <<>>

(***************************************************************************)
(* Further properties of createParticles, checked under SpecGen.           *)
(***************************************************************************)
\* C32: the slot a producer is about to read with getParticle( pid ) has
\* not been written by setParticle during this generation and no other
\* producer is about to write it: the record read is the one slot pid held
\* before generation started.
C32_ReadsUnwrittenSlot ==
    hostpc = "launched" =>
        \A cell \in DOMAIN prod :
            prod[cell].pc = "get" =>
                /\ \A p2 \in DOMAIN wrote : wrote[p2] # PidOf(cell)
                /\ \A c2 \in DOMAIN prod \ {cell} :
                       prod[c2].pc = "set" => prod[c2].c # PidOf(cell)

(***************************************************************************)
(* Properties of the PARTICLE_OP wrapper, checked under SpecOp.            *)
(***************************************************************************)
\* The vectors that hold particles sp .. np, counted from 1.
VectorsOf(sp, np) == ((sp - 1) \div VectorLength)..((np - 1) \div VectorLength)

\* C40: every vector index the wrapper dispatches is a block of the list,
\* and when it has returned the kernel has run on exactly the vectors that
\* hold particles sp .. np.
C40_WholeVectors ==
    opcall # <<>> =>
        /\ \A idx \in OpRange : 0 <= idx /\ idx < numSoA(aosoa)
        /\ hostpc = "opreturned" =>
               visited = VectorsOf(opcall[1].sp, opcall[1].np)

====
